---- MODULE Spec2Model ----
(***************************************************************************)
(* Model of document_processor/processor.py: get_document, read_document,  *)
(* get_document_meta_data, extract_data_from_page and extract_image.       *)
(*                                                                         *)
(* Python values are records tagged with their type.  A function call is   *)
(* an outcome [tag, value, io]: tag is "return" or "raise", value is the   *)
(* returned value or the exception, io is the sequence of observable       *)
(* effects of the call (existence checks, PDF decoding, page indexing,     *)
(* text extraction, file opens, printed diagnostics), in program order.    *)
(***************************************************************************)
EXTENDS Integers, Sequences, FiniteSets, TLC

VARIABLES disk, pdf, fs, pc, call, page, count, images, text, meta_data, result, io

vars == <<disk, pdf, fs, pc, call, page, count, images, text, meta_data, result, io>>

(***************************************************************************)
(* Bounds of the model.                                                    *)
(***************************************************************************)
MaxPages == 2
MaxImages == 2

Procs == {1, 2}
DocPaths == {"a.pdf", "b.pdf"}
Names == {"img1.png", "img2.png"}
PageNumbers == (0 - 1) .. (MaxPages + 1)
FileKinds == {"missing", "corrupt", "pdf"}
WriteOutcomes == {"ok", "open_fails", "write_fails"}

(***************************************************************************)
(* Python values.                                                          *)
(***************************************************************************)
None == [type |-> "None"]
Path(s) == [type |-> "Path", path |-> s]
PdfReader == [type |-> "PdfReader"]
Null == <<>>
Some(s) == <<s>>

Error(name) == [type |-> name, cause |-> ""]
ImageExtractionErrorBases == {"Exception"}
ImageExtractionError(e) == [type |-> "ImageExtractionError", cause |-> e]
IsException(e) == e.type = "ImageExtractionError" => "Exception" \in ImageExtractionErrorBases

Ret(v, o) == [tag |-> "return", value |-> v, io |-> o]
Raise(e, o) == [tag |-> "raise", value |-> e, io |-> o]
NoResult == [tag |-> "none", value |-> None]

(***************************************************************************)
(* Documents: a decoded PDF has an optional metadata record and a sequence *)
(* of pages; a page has a text and a sequence of embedded images, each     *)
(* with a name and its bytes.  The bytes of the j-th image of page i are   *)
(* <<i, j>>; the bytes of a file whose write failed midway are <<>>.       *)
(***************************************************************************)
SeqsUpTo(S, n) == UNION {[1..k -> S] : k \in 0..n}
DocumentInformation(s) == [type |-> "DocumentInformation", title |-> s, author |-> s,
                           subject |-> s, producer |-> s, creator |-> s]
Metadatas == {None, DocumentInformation(Null), DocumentInformation(Some("Example"))}
MkPage(i, names) == [text |-> "text" \o ToString(i),
                     images |-> [j \in 1..Len(names) |-> [name |-> names[j], data |-> <<i, j>>]]]
Docs == {[metadata |-> m, pages |-> [i \in 1..n |-> MkPage(i, names)]] :
            m \in Metadatas, n \in 0..MaxPages, names \in SeqsUpTo(Names, MaxImages)}
Partial == <<>>
storage_path == "images"

(***************************************************************************)
(* get_document (lines 44-48).                                             *)
(***************************************************************************)
exists(document_path) == disk[document_path.path] # "missing"

get_document(document_path) ==
    LET p == IF document_path.type = "str" THEN Path(document_path.path) ELSE document_path
    IN  IF ~exists(p)
        THEN Raise(Error("FileNotFoundError"), <<"exists">>)
        ELSE Ret(p, <<"exists">>)

(***************************************************************************)
(* read_document (lines 85-91).                                            *)
(***************************************************************************)
read_document_soft(document_path) ==
    LET g == get_document(document_path)
    IN  IF g.tag = "raise" \/ disk[g.value.path] = "corrupt"
        THEN Ret(None, g.io \o <<"print: Error reading document">>)
        ELSE Ret(PdfReader, g.io \o <<"PdfReader">>)

read_document(document_path) ==
    LET g == get_document(document_path)
    IN  IF g.tag = "raise" THEN g
        ELSE IF disk[g.value.path] = "corrupt"
             THEN Ret(None, g.io \o <<"PdfReader", "print: Error reading document">>)
             ELSE Ret(PdfReader, g.io \o <<"PdfReader">>)

(***************************************************************************)
(* get_document_meta_data (lines 137-156).                                 *)
(***************************************************************************)
resolve_reader(document) ==
    IF document.type = "Path"
    THEN LET g == get_document(document)
         IN  IF g.tag = "raise" THEN g
             ELSE LET r == read_document(g.value)
                  IN  [r EXCEPT !.io = g.io \o r.io]
    ELSE Ret(document, <<>>)

read_meta_data(reader) ==
    LET data == pdf.metadata
    IN  IF data = None
        THEN Raise(Error("AttributeError"), <<>>)
        ELSE Ret([num_pages |-> Len(pdf.pages), title |-> data.title, author |-> data.author,
                  subject |-> data.subject, producer |-> data.producer,
                  creator |-> data.creator], <<>>)

get_document_meta_data(document) ==
    LET r == resolve_reader(document)
    IN  IF r.tag = "raise" THEN r
        ELSE IF r.value = None THEN Ret(None, r.io)
        ELSE LET m == read_meta_data(r.value)
             IN  [m EXCEPT !.io = r.io \o m.io]

DocumentForms == {None, PdfReader} \cup {Path(s) : s \in DocPaths}

Init ==
    /\ disk \in [DocPaths -> FileKinds]
    /\ pdf \in Docs
    /\ fs = <<>>
    /\ pc = [p \in Procs |-> "idle"]
    /\ call = [p \in Procs |-> [fn |-> "", document |-> None, page_number |-> 0]]
    /\ page = [p \in Procs |-> None]
    /\ count = [p \in Procs |-> 0]
    /\ images = [p \in Procs |-> <<>>]
    /\ text = [p \in Procs |-> ""]
    /\ meta_data = [p \in Procs |-> None]
    /\ result = [p \in Procs |-> NoResult]
    /\ io = [p \in Procs |-> <<>>]

(***************************************************************************)
(* A call of a function that runs to completion in one step.               *)
(***************************************************************************)
Finish(p, fn, document, page_number, o) ==
    /\ pc' = [pc EXCEPT ![p] = "done"]
    /\ call' = [call EXCEPT ![p] = [fn |-> fn, document |-> document, page_number |-> page_number]]
    /\ result' = [result EXCEPT ![p] = [tag |-> o.tag, value |-> o.value]]
    /\ io' = [io EXCEPT ![p] = o.io]

CallGetDocument(p) ==
    /\ pc[p] = "idle"
    /\ \E s \in DocPaths, t \in {"str", "Path"} :
          Finish(p, "get_document", [type |-> t, path |-> s], 0,
                 get_document([type |-> t, path |-> s]))
    /\ UNCHANGED <<disk, pdf, fs, page, count, images, text, meta_data>>

CallReadDocument(p) ==
    /\ pc[p] = "idle"
    /\ \E s \in DocPaths :
          Finish(p, "read_document", Path(s), 0, read_document(Path(s)))
    /\ UNCHANGED <<disk, pdf, fs, page, count, images, text, meta_data>>

CallGetDocumentMetaData(p) ==
    /\ pc[p] = "idle"
    /\ \E d \in DocumentForms :
          Finish(p, "get_document_meta_data", d, 0, get_document_meta_data(d))
    /\ UNCHANGED <<disk, pdf, fs, page, count, images, text, meta_data>>

(***************************************************************************)
(* extract_data_from_page (lines 209-229), up to its call of               *)
(* extract_image.  text_ok is whether page.extract_text() succeeds.  An    *)
(* outcome tagged "call" enters extract_image with the frame in value.     *)
(***************************************************************************)
page_field_zero_based(page_number) == page_number

page_field(page_number) == page_number + 1

extract_page(reader, page_number, m, o, text_ok) ==
    IF page_number >= Len(pdf.pages)
    THEN Ret(None, o \o <<"index", "print: Error extracting text">>)
    ELSE IF ~text_ok
    THEN Ret(None, o \o <<"index", "extract_text", "print: Error extracting text">>)
    ELSE [tag |-> "call",
          value |-> [page |-> pdf.pages[page_number + 1],
                     text |-> pdf.pages[page_number + 1].text,
                     meta_data |-> m],
          io |-> o \o <<"index", "extract_text">>]

extract_data_body(reader, page_number, text_ok) ==
    IF reader = None THEN Ret(None, <<>>)
    ELSE LET r == IF reader.type = "Path" THEN read_document(reader) ELSE Ret(reader, <<>>)
         IN  IF r.tag = "raise" THEN r
             ELSE LET m == get_document_meta_data(r.value)
                  IN  IF m.tag = "raise" THEN Raise(m.value, r.io \o m.io)
                      ELSE IF m.value = None THEN Raise(Error("TypeError"), r.io \o m.io)
                      ELSE extract_page(r.value, page_number,
                                        [page |-> page_field(page_number)] @@ m.value,
                                        r.io \o m.io, text_ok)

extract_data_from_page_late_check(reader, page_number, text_ok) ==
    IF reader = None
    THEN Ret(None, <<>>)
    ELSE IF page_number - 1 < 0
    THEN Raise(Error("ValueError"), <<>>)
    ELSE extract_data_body(reader, page_number - 1, text_ok)

extract_data_from_page(reader, page_number, text_ok) ==
    IF page_number - 1 < 0
    THEN Raise(Error("ValueError"), <<>>)
    ELSE extract_data_body(reader, page_number - 1, text_ok)

CallExtractDataFromPage(p) ==
    /\ pc[p] = "idle"
    /\ \E d \in DocumentForms, n \in PageNumbers, text_ok \in BOOLEAN :
          LET o == extract_data_from_page(d, n, text_ok)
          IN  IF o.tag = "call"
              THEN /\ pc' = [pc EXCEPT ![p] = "loop"]
                   /\ call' = [call EXCEPT ![p] = [fn |-> "extract_data_from_page",
                                                   document |-> d, page_number |-> n]]
                   /\ page' = [page EXCEPT ![p] = o.value.page]
                   /\ text' = [text EXCEPT ![p] = o.value.text]
                   /\ meta_data' = [meta_data EXCEPT ![p] = o.value.meta_data]
                   /\ count' = [count EXCEPT ![p] = 0]
                   /\ images' = [images EXCEPT ![p] = <<>>]
                   /\ io' = [io EXCEPT ![p] = o.io]
                   /\ UNCHANGED result
              ELSE /\ Finish(p, "extract_data_from_page", d, n, o)
                   /\ UNCHANGED <<page, count, images, text, meta_data>>
    /\ UNCHANGED <<disk, pdf, fs>>

(***************************************************************************)
(* extract_image (lines 267-280): the call, one iteration of the loop, and *)
(* the return after the last image.                                        *)
(***************************************************************************)
CallExtractImage(p) ==
    /\ pc[p] = "idle"
    /\ \E i \in 1..Len(pdf.pages) :
          /\ call' = [call EXCEPT ![p] = [fn |-> "extract_image", document |-> None,
                                          page_number |-> i]]
          /\ page' = [page EXCEPT ![p] = pdf.pages[i]]
    /\ pc' = [pc EXCEPT ![p] = "loop"]
    /\ count' = [count EXCEPT ![p] = 0]
    /\ images' = [images EXCEPT ![p] = <<>>]
    /\ UNCHANGED <<disk, pdf, fs, text, meta_data, result, io>>

image_path_from_one(storage, cnt, name) == storage \o "/" \o ToString(cnt + 1) \o "_" \o name

image_path_without_count(storage, cnt, name) == storage \o "/" \o name

image_path(storage, cnt, name) == storage \o "/" \o ToString(cnt) \o "_" \o name

Put(files, path, data) == [q \in DOMAIN files \cup {path} |-> IF q = path THEN data ELSE files[q]]

open_wb(files, path, data, outcome) ==
    CASE outcome = "ok" -> Put(files, path, data)
      [] outcome = "write_fails" -> Put(files, path, Partial)
      [] outcome = "open_fails" -> files

Opened(path) == "open " \o path

ImageFails(p, path, e) ==
    IF call[p].fn = "extract_data_from_page" /\ IsException(e)
    THEN /\ result' = [result EXCEPT ![p] = [tag |-> "return", value |-> None]]
         /\ io' = [io EXCEPT ![p] = Append(Append(@, Opened(path)), "print: Error extracting text")]
    ELSE /\ result' = [result EXCEPT ![p] = [tag |-> "raise", value |-> e]]
         /\ io' = [io EXCEPT ![p] = Append(@, Opened(path))]

Remove(files, paths) == [q \in DOMAIN files \ paths |-> files[q]]

WriteImageRollback(p) ==
    /\ pc[p] = "loop"
    /\ count[p] < Len(page[p].images)
    /\ LET image_file_object == page[p].images[count[p] + 1]
           path == image_path(storage_path, count[p], image_file_object.name)
       IN  \E outcome \in WriteOutcomes :
              IF outcome = "ok"
              THEN /\ fs' = open_wb(fs, path, image_file_object.data, outcome)
                   /\ images' = [images EXCEPT ![p] = Append(@, path)]
                   /\ count' = [count EXCEPT ![p] = @ + 1]
                   /\ io' = [io EXCEPT ![p] = Append(@, Opened(path))]
                   /\ UNCHANGED <<pc, result>>
              ELSE /\ fs' = Remove(fs, {path} \cup {images[p][i] : i \in DOMAIN images[p]})
                   /\ ImageFails(p, path, ImageExtractionError("OSError"))
                   /\ pc' = [pc EXCEPT ![p] = "done"]
                   /\ UNCHANGED <<images, count>>
    /\ UNCHANGED <<disk, pdf, call, page, text, meta_data>>

WriteImage(p) ==
    /\ pc[p] = "loop"
    /\ count[p] < Len(page[p].images)
    /\ LET image_file_object == page[p].images[count[p] + 1]
           path == image_path(storage_path, count[p], image_file_object.name)
       IN  \E outcome \in WriteOutcomes :
              /\ fs' = open_wb(fs, path, image_file_object.data, outcome)
              /\ IF outcome = "ok"
                 THEN /\ images' = [images EXCEPT ![p] = Append(@, path)]
                      /\ count' = [count EXCEPT ![p] = @ + 1]
                      /\ io' = [io EXCEPT ![p] = Append(@, Opened(path))]
                      /\ UNCHANGED <<pc, result>>
                 ELSE /\ ImageFails(p, path, ImageExtractionError("OSError"))
                      /\ pc' = [pc EXCEPT ![p] = "done"]
                      /\ UNCHANGED <<images, count>>
    /\ UNCHANGED <<disk, pdf, call, page, text, meta_data>>

ReturnImages(p) ==
    /\ pc[p] = "loop"
    /\ count[p] = Len(page[p].images)
    /\ pc' = [pc EXCEPT ![p] = "done"]
    /\ result' = [result EXCEPT ![p] =
          IF call[p].fn = "extract_data_from_page"
          THEN [tag |-> "return",
                value |-> [type |-> "tuple", text |-> text[p], images |-> images[p],
                           meta_data |-> meta_data[p]]]
          ELSE [tag |-> "return", value |-> [type |-> "list", items |-> images[p]]]]
    /\ UNCHANGED <<disk, pdf, fs, call, page, count, images, text, meta_data, io>>

(***************************************************************************)
(* The caller takes the result; nothing of the call is kept.               *)
(***************************************************************************)
Return(p) ==
    /\ pc[p] = "done"
    /\ pc' = [pc EXCEPT ![p] = "idle"]
    /\ call' = [call EXCEPT ![p] = [fn |-> "", document |-> None, page_number |-> 0]]
    /\ page' = [page EXCEPT ![p] = None]
    /\ count' = [count EXCEPT ![p] = 0]
    /\ images' = [images EXCEPT ![p] = <<>>]
    /\ text' = [text EXCEPT ![p] = ""]
    /\ meta_data' = [meta_data EXCEPT ![p] = None]
    /\ result' = [result EXCEPT ![p] = NoResult]
    /\ io' = [io EXCEPT ![p] = <<>>]
    /\ UNCHANGED <<disk, pdf, fs>>

(***************************************************************************)
(* Spec: one caller, calls back to back (the program is single-threaded).  *)
(* SpecConcurrent: two callers of extract_image, interleaved at the image  *)
(* writes, on one storage directory.                                       *)
(***************************************************************************)
Next ==
    \E p \in {1} :
        \/ CallGetDocument(p)
        \/ CallReadDocument(p)
        \/ CallGetDocumentMetaData(p)
        \/ CallExtractDataFromPage(p)
        \/ CallExtractImage(p)
        \/ WriteImage(p)
        \/ ReturnImages(p)
        \/ Return(p)

Spec == Init /\ [][Next]_vars

NextConcurrent ==
    \E p \in Procs :
        \/ CallExtractImage(p)
        \/ WriteImage(p)
        \/ ReturnImages(p)
        \/ Return(p)

InitConcurrent == Init /\ disk = [s \in DocPaths |-> "pdf"]

SpecConcurrent == InitConcurrent /\ [][NextConcurrent]_vars
(***************************************************************************)
(* Vocabulary of the properties.                                           *)
(***************************************************************************)
Diagnostics == {"print: Error reading document", "print: Error extracting text"}
ReadEvents == {"exists", "PdfReader", "index", "extract_text"}
Printed(p) == \E i \in DOMAIN io[p] : io[p][i] \in Diagnostics
Opens(p) == SelectSeq(io[p], LAMBDA e : e \notin Diagnostics \cup ReadEvents)
Called(p, fn) == pc[p] = "done" /\ call[p].fn = fn
Raised(p, name) == result[p].tag = "raise" /\ result[p].value.type = name
ReturnedNone(p) == result[p] = [tag |-> "return", value |-> None]
MissingPath(d) == d.type \in {"Path", "str"} /\ disk[d.path] = "missing"
DecodeFails(d) == d.type = "Path" /\ disk[d.path] = "corrupt"
Available(d) == d = PdfReader \/ (d.type = "Path" /\ disk[d.path] = "pdf")
PageCount == Len(pdf.pages)
MetaFields == {"num_pages", "title", "author", "subject", "producer", "creator"}

(***************************************************************************)
(* C1: a page number below 1 makes extract_data_from_page raise ValueError *)
(* before anything else, whatever the document argument is: no existence   *)
(* check, no decoding, no page indexed, no file opened, nothing printed,   *)
(* and the result is neither None nor FileNotFoundError.                   *)
(***************************************************************************)
C1_InvalidPageRaisesFirst ==
    \A p \in Procs :
        (pc[p] # "idle" /\ call[p].fn = "extract_data_from_page" /\ call[p].page_number < 1)
        => /\ pc[p] = "done"
           /\ result[p] = [tag |-> "raise", value |-> Error("ValueError")]
           /\ io[p] = <<>>
           /\ page[p] = None

C1_Witness ==
    \E p \in Procs :
        /\ Called(p, "extract_data_from_page")
        /\ call[p].page_number < 1
        /\ MissingPath(call[p].document)
        /\ Raised(p, "ValueError")

(***************************************************************************)
(* C2: when decoding failed (the handle is None, or the path names a file  *)
(* read_document cannot decode), get_document_meta_data and                *)
(* extract_data_from_page with a page number >= 1 return None and raise    *)
(* nothing.                                                                *)
(***************************************************************************)
C2_UnavailableIsSoft ==
    \A p \in Procs :
        (/\ \/ Called(p, "get_document_meta_data")
            \/ Called(p, "extract_data_from_page") /\ call[p].page_number >= 1
         /\ call[p].document = None \/ DecodeFails(call[p].document))
        => ReturnedNone(p)

(***************************************************************************)
(* C3: a failed image write during extract_data_from_page reaches the      *)
(* caller as a raised ImageExtractionError wrapping the I/O cause, not as  *)
(* None.                                                                   *)
(***************************************************************************)
WriteFailed(p) == pc[p] = "done" /\ page[p] # None /\ count[p] < Len(page[p].images)

C3_ImageErrorNotSwallowed ==
    \A p \in Procs :
        (call[p].fn = "extract_data_from_page" /\ WriteFailed(p))
        => result[p] = [tag |-> "raise", value |-> ImageExtractionError("OSError")]

(***************************************************************************)
(* C4: a document without a metadata dictionary still yields a record with *)
(* its page count and null title, author, subject, producer and creator,   *)
(* and extract_data_from_page with a valid page number does not fail on    *)
(* the missing metadata.                                                   *)
(***************************************************************************)
C4_MissingMetadataTolerated ==
    \A p \in Procs :
        (pdf.metadata = None /\ Available(call[p].document))
        => /\ Called(p, "get_document_meta_data")
              => result[p] = [tag |-> "return",
                              value |-> [num_pages |-> PageCount, title |-> Null,
                                         author |-> Null, subject |-> Null,
                                         producer |-> Null, creator |-> Null]]
           /\ (Called(p, "extract_data_from_page") /\ call[p].page_number \in 1..PageCount)
              => result[p].tag # "raise"

Succeeded(p) ==
    /\ Called(p, "extract_data_from_page")
    /\ result[p].tag = "return"
    /\ result[p].value.type = "tuple"

C9_OutOfRangeIsSoft ==
    \A p \in Procs :
        (/\ Called(p, "extract_data_from_page")
         /\ Available(call[p].document)
         /\ call[p].page_number > PageCount)
        => /\ ReturnedNone(p)
           /\ Printed(p)
           /\ Opens(p) = <<>>
(***************************************************************************)
(* The paths extract_image is to write for a page: the i-th image (from 0) *)
(* at storage_path/{i}_{name}.                                             *)
(***************************************************************************)
ExpectedPaths(pg) ==
    [i \in 1..Len(pg.images) |-> storage_path \o "/" \o ToString(i - 1) \o "_" \o pg.images[i].name]

Holds(path, data) == path \in DOMAIN fs /\ fs[path] = data

(***************************************************************************)
(* C5: when the write of image j (from 0) fails in extract_image, the call *)
(* raises ImageExtractionError at once: the files of images 0..j-1 are in  *)
(* the storage directory with their bytes, exactly j+1 files were opened   *)
(* (none after position j), and no list is returned.                       *)
(***************************************************************************)
C5_NoRollbackOnFailure ==
    \A p \in Procs :
        (call[p].fn = "extract_image" /\ WriteFailed(p))
        => LET j == count[p]
           IN  /\ result[p] = [tag |-> "raise", value |-> ImageExtractionError("OSError")]
               /\ images[p] = SubSeq(ExpectedPaths(page[p]), 1, j)
               /\ \A i \in 1..j : Holds(images[p][i], page[p].images[i].data)
               /\ Opens(p) = [i \in 1..(j + 1) |-> Opened(ExpectedPaths(page[p])[i])]

C5_Witness ==
    \E p \in Procs :
        /\ call[p].fn = "extract_image"
        /\ WriteFailed(p)
        /\ count[p] = 1
        /\ Raised(p, "ImageExtractionError")
        /\ Holds(images[p][1], page[p].images[1].data)

(***************************************************************************)
(* C6: when all k writes succeed, extract_image has opened exactly the k   *)
(* files storage_path/{i}_{name_i}, i = 0..k-1 in page order, each holds   *)
(* its image's bytes, and the returned list is those k paths in order.     *)
(***************************************************************************)
ReturnedPaths(p) ==
    IF result[p].value.type = "tuple" THEN result[p].value.images ELSE result[p].value.items

AllWritten(p) ==
    /\ pc[p] = "done"
    /\ page[p] # None
    /\ result[p].tag = "return"
    /\ result[p].value.type \in {"list", "tuple"}

DistinctWithinCall ==
    \A p \in Procs : \A i, j \in DOMAIN images[p] : i # j => images[p][i] # images[p][j]

SamePathAcrossCalls ==
    \A p, q \in Procs : \A i \in DOMAIN images[p] \cap DOMAIN images[q] :
        page[p].images[i].name = page[q].images[i].name => images[p][i] = images[q][i]

CounterRestarts ==
    \A p \in Procs :
        (pc[p] = "idle" /\ pc'[p] = "loop") => (count'[p] = 0 /\ images'[p] = <<>>)

WriteReplaces ==
    \A p \in Procs :
        (pc[p] = "loop" /\ Len(images'[p]) = Len(images[p]) + 1)
        => LET i == Len(images'[p])
           IN  /\ images'[p][i] \in DOMAIN fs'
               /\ fs'[images'[p][i]] = page[p].images[i].data

C10_UniqueOnlyWithinCall ==
    /\ [](DistinctWithinCall /\ SamePathAcrossCalls)
    /\ [][CounterRestarts /\ WriteReplaces]_vars

C10_Witness ==
    \E p, q \in Procs :
        /\ p # q
        /\ pc[p] = "done" /\ pc[q] = "done"
        /\ images[p] # <<>> /\ images[q] # <<>>
        /\ images[p][1] = images[q][1]
        /\ page[p].images[1].data # page[q].images[1].data
        /\ fs[images[p][1]] = page[q].images[1].data
====
